---- MODULE Spec2Model ----
(***************************************************************************)
(* Model of pkg/model/uimodel.go: the Bubble Tea model of the node         *)
(* dashboard.  The event loop calls Update(msg) and then View() for every  *)
(* message; the cluster is written by another goroutine, so the node set   *)
(* may change between any two calls of Stats().                            *)
(***************************************************************************)
EXTENDS Integers, Sequences, FiniteSets, TLC

\* ---- bounds of the model ----
MaxNodes == 3       \* size of the universe of nodes
MaxHeight == 8      \* largest terminal height of a resize event
MaxRes == 2         \* largest number of tracked resources
MaxPage == 3        \* largest page index the keys may reach
MaxExecs == 2       \* external commands that may be outstanding at once
MaxTicks == 2       \* pending timers counted; MaxTicks stands for more too
MaxSortNodes == 3   \* longest node list handed to the sorter on its own
MaxKey == 2         \* distinct creation times and distinct label values

NodeIds == 1..MaxNodes
\* 0 is the height before the first resize; the smaller heights give the
\* same negative capacities as 0 and 5 do
Heights == {0} \cup 5..MaxHeight

VARIABLES
    cluster,        \* u.cluster: the set of nodes currently known
    resources,      \* len(u.cluster.resources)
    copyInstanceID, \* u.copyInstanceID
    nodeExec,       \* u.nodeExec ("" when NODE_EXEC is unset)
    height,         \* u.height
    Page,           \* u.paginator.Page
    PerPage,        \* u.paginator.PerPage
    TotalPages,     \* u.paginator.TotalPages
    current,        \* u.current
    start,          \* u.start
    end,            \* u.end
    err,            \* u.err
    rows,           \* number of node blocks written by the last View
    repaired,       \* the last View took the page repair branch
    msg,            \* the message Update handled and View has not yet drawn
    ticks,          \* tickCmd timers scheduled and not yet delivered
    execs,          \* external commands started and not yet reported
    action,         \* what openNode did in the last Update, if it ran
    nodeName,       \* the local nodeName of openNode, while it runs
    fault,          \* the run-time panic that ended the program, if any
    pc,             \* position of the event loop
    nodeSort,       \* the nodeSort argument of NewUIModel, as its tokens
    nodes,          \* stats.Nodes as cluster.Stats() returned it
    sorted,         \* stats.Nodes after the sort.Slice of UIModel.Stats
    compared        \* the last call of u.nodeSorter and its result

vars == <<cluster, resources, copyInstanceID, nodeExec, height, Page, PerPage,
          TotalPages, current, start, end, err, rows, repaired, msg, ticks,
          execs, action, nodeName, fault, pc, nodeSort, nodes, sorted,
          compared>>

config == <<resources, copyInstanceID, nodeExec>>
pager == <<Page, PerPage, TotalPages>>
selection == <<current, start, end>>
frame == <<rows, repaired>>
sorting == <<nodeSort, nodes, sorted, compared>>

\* ---- Go integer arithmetic: / truncates toward zero, % takes the sign of
\* ---- the dividend; both panic on a zero divisor (callers test for it)
Abs(x) == IF x < 0 THEN -x ELSE x

GoDiv(a, b) ==
    IF (a >= 0) = (b > 0) THEN Abs(a) \div Abs(b) ELSE -(Abs(a) \div Abs(b))

GoMod(a, b) == a - b * GoDiv(a, b)

Min(a, b) == IF a < b THEN a ELSE b

\* ---- nodes: the attributes the model reads.  A string is the sequence of
\* ---- its chunks (maximal runs of digits or of non-digits), "" is <<>>; a
\* ---- digit chunk carries its value, another chunk its rank in byte order.
Str(rank) == [digits |-> FALSE, v |-> rank]

Num(value) == [digits |-> TRUE, v |-> value]

Name(n) == <<Str(2), Num(n)>>                                \* "node-<n>"

InstanceID(n) == IF n % 2 = 0 THEN <<>> ELSE <<Str(1), Num(n)>>   \* "i-<n>"

IsFargate(n) == n % 3 = 0

Created(n) == n

\* bytes of a chunk compared as Go compares strings: a digit is below a letter
ChunkLess(x, y) ==
    IF x.digits = y.digits THEN x.v < y.v ELSE x.digits

\* natsort.Compare(a, b), from chunk i on
RECURSIVE CompareFrom(_, _, _)
CompareFrom(a, b, i) ==
    IF i > Len(a) THEN FALSE
    ELSE IF i > Len(b) THEN FALSE
    ELSE IF a[i] = b[i]
         THEN IF i = Len(a) THEN TRUE
              ELSE IF i = Len(b) THEN FALSE
              ELSE CompareFrom(a, b, i + 1)
         ELSE IF a[i].digits /\ b[i].digits THEN a[i].v < b[i].v
              ELSE ChunkLess(a[i], b[i])

natsortCompare(a, b) == CompareFrom(a, b, 1)

\* makeNodeSorter("creation"): newest first, equal times by name
nodeSorter(lhs, rhs) ==
    IF Created(lhs) = Created(rhs)
    THEN natsortCompare(Name(lhs), Name(rhs))
    ELSE Created(rhs) < Created(lhs)

\* UIModel.Stats: the nodes of the cluster, sorted with nodeSorter
RECURSIVE SortNodes(_)
SortNodes(S) ==
    IF S = {} THEN <<>>
    ELSE LET first == CHOOSE n \in S : \A m \in S \ {n} : nodeSorter(n, m)
         IN  <<first>> \o SortNodes(S \ {first})

Stats == [Nodes |-> SortNodes(cluster), NumNodes |-> Cardinality(cluster)]

\* ---- makeNodeSorter for any sort specification.  nodeSort is the string
\* ---- cut into tokens: the key, then the suffixes ("=asc", "=dsc") in the
\* ---- order written.  A node is the record of the attributes the sorter
\* ---- reads; label is node.Labels[key], or ComputeLabel(key) without it.
HasSuffix(s, suffix) == Len(s) > 0 /\ s[Len(s)] = suffix

Front(s) == SubSeq(s, 1, Len(s) - 1)

\* nodeSort after the first if: a trailing "=asc" is cut off
StripAsc(s) == IF HasSuffix(s, "=asc") THEN Front(s) ELSE s

\* nodeSort after the second if: a trailing "=dsc" is cut off too
SortKey(s) == IF HasSuffix(StripAsc(s), "=dsc") THEN Front(StripAsc(s))
              ELSE StripAsc(s)

\* sortOrder: the identity, or the negation once "=dsc" was found
sortOrder(s, b) == IF HasSuffix(StripAsc(s), "=dsc") THEN ~b ELSE b

\* the closure makeNodeSorter(s) returns, applied to lhs and rhs
makeNodeSorter(s, lhs, rhs) ==
    IF SortKey(s) = <<"creation">>
    THEN IF lhs.created = rhs.created
         THEN sortOrder(s, natsortCompare(lhs.name, rhs.name))
         ELSE sortOrder(s, rhs.created < lhs.created)
    ELSE IF lhs.label = rhs.label
         THEN sortOrder(s, natsortCompare(lhs.instanceID, rhs.instanceID))
         ELSE sortOrder(s, natsortCompare(lhs.label, rhs.label))

Swap(s, i, j) == [s EXCEPT ![i] = s[j], ![j] = s[i]]

\* sort.Slice on fewer than 12 elements is an insertion sort; its inner
\* loop: for j > a && less(j, j-1) { swap(j, j-1); j-- }
RECURSIVE InsertLeft(_, _, _)
InsertLeft(list, j, s) ==
    IF j > 1 /\ makeNodeSorter(s, list[j], list[j - 1])
    THEN InsertLeft(Swap(list, j, j - 1), j - 1, s)
    ELSE list

\* its outer loop: for i := a + 1; i < b; i++
RECURSIVE InsertionSort(_, _, _)
InsertionSort(list, i, s) ==
    IF i > Len(list) THEN list
    ELSE InsertionSort(InsertLeft(list, i, s), i + 1, s)

\* sort.Slice(stats.Nodes, less) with less built from the sort specification
SortSlice(list, s) == InsertionSort(list, 2, s)

NoCompare == [lhs |-> 0, rhs |-> 0, less |-> FALSE]

\* the sort specifications: a key alone, or with one direction suffix
SortSpecs ==
    {<<k>> : k \in {"creation", "zone"}}
    \cup {<<k, d>> : k \in {"creation", "zone"}, d \in {"=asc", "=dsc"}}

\* label values: "" and one string for each number
LabelValues == {<<>>} \cup {<<Str(2 + v)>> : v \in 1..MaxKey}

\* instance ids: "" and one id for each node of a list
InstanceIDs == {<<>>} \cup {<<Str(1), Num(v)>> : v \in 1..MaxSortNodes}

\* node lists for a sort by creation time: names are unique in a cluster and
\* come in any order, times may be equal
CreationLists ==
    UNION {{[i \in 1..n |-> [name |-> Name(names[i]), created |-> times[i],
                             label |-> <<>>, instanceID |-> <<>>]] :
              names \in {f \in [1..n -> 1..n] :
                           \A i, j \in 1..n : f[i] = f[j] => i = j},
              times \in [1..n -> 1..MaxKey]} : n \in 0..MaxSortNodes}

\* node lists for a sort by a label: labels may be equal and may be empty,
\* an instance id may be empty and is unique when it is not
LabelLists ==
    UNION {{[i \in 1..n |-> [name |-> Name(i), created |-> 1,
                             label |-> attrs[i][1],
                             instanceID |-> attrs[i][2]]] :
              attrs \in {f \in [1..n -> LabelValues \X InstanceIDs] :
                           \A i, j \in 1..n :
                              (f[i][2] = f[j][2] /\ f[i][2] # <<>>)
                              => i = j}} :
           n \in 0..MaxSortNodes}

\* the sorter on its own: a sort specification and a list of nodes
SortInit ==
    /\ cluster = {}
    /\ resources = 1
    /\ copyInstanceID = FALSE
    /\ nodeExec = ""
    /\ height = 0
    /\ Page = 0
    /\ PerPage = 1
    /\ TotalPages = 1
    /\ current = 0
    /\ start = 0
    /\ end = 0
    /\ err = "nil"
    /\ rows = 0
    /\ repaired = FALSE
    /\ msg = "none"
    /\ ticks = 0
    /\ execs = 0
    /\ action = [kind |-> "none", payload |-> <<>>, tested |-> 0]
    /\ nodeName = <<>>
    /\ fault = "none"
    /\ pc = "sort"
    /\ nodeSort \in SortSpecs
    /\ nodes \in IF SortKey(nodeSort) = <<"creation">> THEN CreationLists
                 ELSE LabelLists
    /\ sorted = <<>>
    /\ compared = NoCompare

\* UIModel.Stats: the sort.Slice call
StatsSort ==
    /\ pc = "sort"
    /\ sorted' = SortSlice(nodes, nodeSort)
    /\ UNCHANGED <<cluster, config, height, pager, selection, err, frame,
                   msg, ticks, execs, action, nodeName, fault, pc, nodeSort,
                   nodes, compared>>

\* one call u.nodeSorter(stats.Nodes[a], stats.Nodes[b])
Less ==
    /\ pc = "sort"
    /\ \E a, b \in 1..Len(nodes) :
          compared' = [lhs |-> a, rhs |-> b,
                       less |-> makeNodeSorter(nodeSort, nodes[a], nodes[b])]
    /\ UNCHANGED <<cluster, config, height, pager, selection, err, frame,
                   msg, ticks, execs, action, nodeName, fault, pc, nodeSort,
                   nodes, sorted>>

SortNext == StatsSort \/ Less

SortSpec == SortInit /\ [][SortNext]_vars


\* ---- bubbles/paginator, as called by the model ----
\* SetTotalPages that forgets the page of the remainder
SetTotalPagesTruncated(items, perPage, totalPages) ==
    IF items < 1 THEN totalPages ELSE GoDiv(items, perPage)

\* paginator.SetTotalPages(items) for items >= 1 and PerPage # 0
SetTotalPages(items, perPage, totalPages) ==
    IF items < 1 THEN totalPages
    ELSE GoDiv(items, perPage)
         + (IF GoMod(items, perPage) > 0 THEN 1 ELSE 0)

\* paginator.GetSliceBounds(length)
GetSliceBounds(page, perPage, length) ==
    [start |-> page * perPage,
     end |-> Min(page * perPage + perPage, length)]

\* paginator.PrevPage
PrevPage(page) == IF page > 0 THEN page - 1 ELSE page

\* paginator.NextPage
NextPage(page, totalPages) ==
    IF page # totalPages - 1 THEN page + 1 ELSE page

\* ---- UIModel ----
\* computeItemsPerPage that forgets the line of the paginator
ItemsPerPageNoFooter(h, headerLines, nodeLines) ==
    GoDiv(h - headerLines, nodeLines)

\* computeItemsPerPage: the page capacity for a height and the line counts
ItemsPerPage(h, headerLines, nodeLines) ==
    GoDiv(h - headerLines, nodeLines) - 1

\* lines of the summary, the pod line and the blank line, plus 2
HeaderLines == resources + 2 + 2

\* lines writeNodeInfo writes for one node, 1 when it writes none
NodeLines == IF resources = 0 THEN 1 ELSE resources

computeItemsPerPage == ItemsPerPage(height, HeaderLines, NodeLines)

\* View without the repair of the page
RepairPageMissing(page, perPage, totalPages, numNodes) == page

\* View's repair of a page beyond the node count
RepairPage(page, perPage, totalPages, numNodes) ==
    IF page * perPage > numNodes THEN totalPages - 1 ELSE page

\* View's correction of the cursor to the visible slice
ClampCurrent(cur, visible) ==
    IF cur >= visible THEN visible - 1 ELSE cur

\* View's guard of the loop over stats.Nodes[u.start:u.end]
RowsWritten(lo, hi) == IF lo >= 0 /\ hi >= lo THEN hi - lo ELSE 0

\* openNode did not run
NoAction == [kind |-> "none", payload |-> <<>>, tested |-> 0]

\* NewUIModel with paginator.New, before the program's first View
Init ==
    /\ cluster \in {1..n : n \in 0..MaxNodes}
    /\ \/ /\ resources = 1
          /\ copyInstanceID \in BOOLEAN
          /\ nodeExec \in {"", "ssh %s"}
       \/ /\ resources \in 0..MaxRes
          /\ copyInstanceID = FALSE
          /\ nodeExec = ""
    /\ height = 0
    /\ Page = 0
    /\ PerPage = 1
    /\ TotalPages = 1
    /\ current = 0
    /\ start = 0
    /\ end = 0
    /\ err = "nil"
    /\ rows = 0
    /\ repaired = FALSE
    /\ msg = "none"
    /\ ticks = 0
    /\ execs = 0
    /\ action = NoAction
    /\ nodeName = <<>>
    /\ fault = "none"
    /\ pc = "view"
    /\ nodeSort = <<"creation">>
    /\ nodes = <<>>
    /\ sorted = <<>>
    /\ compared = NoCompare

\* the informer goroutine reports a new node or the loss of the newest one;
\* nodes are numbered in the order of their creation
ClusterChange ==
    /\ pc \notin {"quit", "panic"}
    /\ \/ /\ Cardinality(cluster) < MaxNodes
          /\ cluster' = cluster \cup {Cardinality(cluster) + 1}
       \/ /\ cluster # {}
          /\ cluster' = cluster \ {Cardinality(cluster)}
    /\ UNCHANGED <<config, sorting, height, pager, selection, err, frame, msg,
                   ticks, execs, action, nodeName, fault, pc>>

\* View of an empty cluster that rewinds the paginator and the selection
ViewEmptyRewinds ==
    /\ pc = "view"
    /\ Stats.NumNodes = 0
    /\ Page' = 0
    /\ start' = 0
    /\ end' = 0
    /\ current' = 0
    /\ rows' = 0
    /\ repaired' = FALSE
    /\ msg' = "none"
    /\ pc' = "update"
    /\ UNCHANGED <<cluster, config, sorting, height, PerPage, TotalPages, err, ticks,
                   execs, action, nodeName, fault>>

\* View with no nodes: the summary and the waiting notice
ViewEmpty ==
    /\ pc = "view"
    /\ Stats.NumNodes = 0
    /\ rows' = 0
    /\ repaired' = FALSE
    /\ msg' = "none"
    /\ pc' = "update"
    /\ UNCHANGED <<cluster, config, sorting, height, pager, selection, err, ticks,
                   execs, action, nodeName, fault>>

\* View with nodes and a page capacity of 0: SetTotalPages divides by it
ViewDivideByZero ==
    /\ pc = "view"
    /\ Stats.NumNodes # 0
    /\ computeItemsPerPage = 0
    /\ PerPage' = computeItemsPerPage
    /\ fault' = "integer divide by zero"
    /\ pc' = "panic"
    /\ UNCHANGED <<cluster, config, sorting, height, Page, TotalPages, selection, err,
                   frame, msg, ticks, execs, action, nodeName>>

\* View with nodes: capacity, page count, page repair, bounds, cursor, rows
ViewNodes ==
    /\ pc = "view"
    /\ Stats.NumNodes # 0
    /\ computeItemsPerPage # 0
    /\ LET numNodes == Stats.NumNodes
           perPage == computeItemsPerPage
           total == SetTotalPages(numNodes, perPage, TotalPages)
           page == RepairPage(Page, perPage, total, numNodes)
           bounds == GetSliceBounds(page, perPage, numNodes)
       IN  /\ PerPage' = perPage
           /\ TotalPages' = total
           /\ Page' = page
           /\ start' = bounds.start
           /\ end' = bounds.end
           /\ current' = ClampCurrent(current, bounds.end - bounds.start)
           /\ rows' = RowsWritten(bounds.start, bounds.end)
           /\ repaired' = (page # Page)
    /\ msg' = "none"
    /\ pc' = "update"
    /\ UNCHANGED <<cluster, config, sorting, height, err, ticks, execs, action,
                   nodeName, fault>>

View == ViewEmpty \/ ViewDivideByZero \/ ViewNodes

\* ---- Update ----
\* case tea.WindowSizeMsg
WindowSize ==
    /\ pc = "update"
    /\ msg' = "resize"
    /\ action' = NoAction
    /\ \E h \in Heights : height' = h
    /\ ticks' = Min(ticks + 1, MaxTicks)
    /\ pc' = "view"
    /\ UNCHANGED <<cluster, config, sorting, pager, selection, err, frame, execs,
                   nodeName, fault>>

\* the state after case "up"
UpKey(cur, lo, hi, page, perPage, numNodes) ==
    IF cur > 0
    THEN [current |-> cur - 1, start |-> lo, end |-> hi, Page |-> page]
    ELSE IF cur = 0 /\ page > 0
         THEN LET prev == PrevPage(page)
                  bounds == GetSliceBounds(prev, perPage, numNodes)
              IN  [current |-> (bounds.end - bounds.start) - 1,
                   start |-> bounds.start, end |-> bounds.end, Page |-> prev]
         ELSE [current |-> cur, start |-> lo, end |-> hi, Page |-> page]

\* case "down" that wraps from the last row of the last page to the first
DownKeyWrap(cur, lo, hi, page, perPage, totalPages, numNodes) ==
    IF cur < (hi - lo) - 1
    THEN [current |-> cur + 1, start |-> lo, end |-> hi, Page |-> page]
    ELSE LET next == IF page # totalPages - 1 THEN page + 1 ELSE 0
             bounds == GetSliceBounds(next, perPage, numNodes)
         IN  [current |-> 0,
              start |-> bounds.start, end |-> bounds.end, Page |-> next]

\* the state after case "down"
DownKey(cur, lo, hi, page, perPage, totalPages, numNodes) ==
    IF cur < (hi - lo) - 1
    THEN [current |-> cur + 1, start |-> lo, end |-> hi, Page |-> page]
    ELSE IF cur = (hi - lo) - 1 /\ page # totalPages - 1
         THEN LET next == NextPage(page, totalPages)
                  bounds == GetSliceBounds(next, perPage, numNodes)
              IN  [current |-> 0,
                   start |-> bounds.start, end |-> bounds.end, Page |-> next]
         ELSE [current |-> cur, start |-> lo, end |-> hi, Page |-> page]

\* case "up"; paginator.Update has no binding for the key
KeyUp ==
    /\ pc = "update"
    /\ msg' = "up"
    /\ action' = NoAction
    /\ LET r == UpKey(current, start, end, Page, PerPage, Stats.NumNodes)
       IN  /\ current' = r.current
           /\ start' = r.start
           /\ end' = r.end
           /\ Page' = r.Page
    /\ pc' = "view"
    /\ UNCHANGED <<cluster, config, sorting, height, PerPage, TotalPages, err, frame,
                   ticks, execs, nodeName, fault>>

\* case "down"; paginator.Update has no binding for the key
KeyDown ==
    /\ pc = "update"
    /\ msg' = "down"
    /\ action' = NoAction
    /\ LET r == DownKey(current, start, end, Page, PerPage, TotalPages,
                        Stats.NumNodes)
       IN  /\ current' = r.current
           /\ start' = r.start
           /\ end' = r.end
           /\ Page' = r.Page
           /\ r.Page <= MaxPage
    /\ pc' = "view"
    /\ UNCHANGED <<cluster, config, sorting, height, PerPage, TotalPages, err, frame,
                   ticks, execs, nodeName, fault>>

\* "left": no case of Update, paginator.Update pages back
KeyLeft ==
    /\ pc = "update"
    /\ msg' = "left"
    /\ action' = NoAction
    /\ Page' = PrevPage(Page)
    /\ pc' = "view"
    /\ UNCHANGED <<cluster, config, sorting, height, PerPage, TotalPages, selection,
                   err, frame, ticks, execs, nodeName, fault>>

\* "right": no case of Update, paginator.Update pages forward
KeyRight ==
    /\ pc = "update"
    /\ msg' = "right"
    /\ action' = NoAction
    /\ Page' = NextPage(Page, TotalPages)
    /\ Page' <= MaxPage
    /\ pc' = "view"
    /\ UNCHANGED <<cluster, config, sorting, height, PerPage, TotalPages, selection,
                   err, frame, ticks, execs, nodeName, fault>>

\* case "q" that returns tickCmd() as the other cases do
KeyQuitTicks ==
    /\ pc = "update"
    /\ msg' = "q"
    /\ action' = NoAction
    /\ ticks' = Min(ticks + 1, MaxTicks)
    /\ pc' = "view"
    /\ UNCHANGED <<cluster, config, sorting, height, pager, selection, err, frame,
                   execs, nodeName, fault>>

\* case "q", "esc", "ctrl+c": tea.Quit ends the program
KeyQuit ==
    /\ pc = "update"
    /\ msg' = "q"
    /\ action' = NoAction
    /\ pc' = "quit"
    /\ UNCHANGED <<cluster, config, sorting, height, pager, selection, err, frame,
                   ticks, execs, nodeName, fault>>

\* case tickMsg
Tick ==
    /\ pc = "update"
    /\ msg' = "tick"
    /\ action' = NoAction
    /\ ticks > 0
    /\ ticks' = ticks
    /\ pc' = "view"
    /\ UNCHANGED <<cluster, config, sorting, height, pager, selection, err, frame,
                   execs, nodeName, fault>>

\* case execFinishedMsg that drops the error of the command
ExecFinishedIgnored(e, oldErr) == [err |-> oldErr, pc |-> "view"]

\* case execFinishedMsg: the error recorded and what follows Update
ExecFinishedResult(e, oldErr) ==
    IF e # "nil" THEN [err |-> e, pc |-> "quit"]
    ELSE [err |-> oldErr, pc |-> "view"]

\* case execFinishedMsg, of a command that succeeded or failed
ExecFinished ==
    /\ pc = "update"
    /\ action' = NoAction
    /\ execs > 0
    /\ execs' = execs - 1
    /\ \E e \in {"nil", "exit status 1"} :
          LET r == ExecFinishedResult(e, err)
          IN  /\ msg' = IF e = "nil" THEN "execFinished" ELSE "execFailed"
              /\ err' = r.err
              /\ pc' = r.pc
    /\ UNCHANGED <<cluster, config, sorting, height, pager, selection, frame, ticks,
                   nodeName, fault>>

\* ---- case "enter": openNode ----
\* the panic of Stats().Nodes[u.start:u.end][u.current], "none" if it succeeds
SelectedFault(lo, hi, cur, numNodes) ==
    IF ~(0 <= lo /\ lo <= hi /\ hi <= numNodes)
    THEN "slice bounds out of range"
    ELSE IF ~(0 <= cur /\ cur < hi - lo)
         THEN "index out of range"
         ELSE "none"

\* UIModel.SelectedNode, when it does not panic
SelectedNode == Stats.Nodes[start + current + 1]

\* openNode that does not test for a Fargate node
OpenKindAnyNode(template, payload, fargate) ==
    IF template = "" \/ payload = <<>> THEN "copy" ELSE "exec"

\* the branch openNode takes: copy to the clipboard or run NODE_EXEC
OpenKind(template, payload, fargate) ==
    IF template = "" \/ payload = <<>> \/ fargate THEN "copy" ELSE "exec"

\* SelectedNodeName: nodeName := u.SelectedNode().Name()
KeyEnter ==
    /\ pc = "update"
    /\ msg' = "enter"
    /\ action' = NoAction
    /\ LET f == SelectedFault(start, end, current, Stats.NumNodes)
       IN  IF f # "none"
           THEN /\ fault' = f
                /\ pc' = "panic"
                /\ UNCHANGED nodeName
           ELSE /\ nodeName' = Name(SelectedNode)
                /\ pc' = IF copyInstanceID THEN "instanceID" ELSE "open"
                /\ UNCHANGED fault
    /\ UNCHANGED <<cluster, config, sorting, height, pager, selection, err, frame,
                   ticks, execs>>

\* SelectedNodeName: nodeName = u.SelectedNode().InstanceID()
EnterInstanceID ==
    /\ pc = "instanceID"
    /\ LET f == SelectedFault(start, end, current, Stats.NumNodes)
       IN  IF f # "none"
           THEN /\ fault' = f
                /\ pc' = "panic"
                /\ UNCHANGED nodeName
           ELSE /\ nodeName' = InstanceID(SelectedNode)
                /\ pc' = "open"
                /\ UNCHANGED fault
    /\ UNCHANGED <<cluster, config, sorting, height, pager, selection, err, frame,
                   msg, ticks, execs, action>>

\* openNode without a template or a payload: the clipboard, no third read
OpenCopy ==
    /\ pc = "open"
    /\ nodeExec = "" \/ nodeName = <<>>
    /\ action' = [kind |-> OpenKind(nodeExec, nodeName, FALSE),
                  payload |-> nodeName, tested |-> 0]
    /\ nodeName' = <<>>
    /\ pc' = "view"
    /\ UNCHANGED <<cluster, config, sorting, height, pager, selection, err, frame,
                   msg, ticks, execs, fault>>

\* openNode with a template and a payload: u.SelectedNode().IsFargate()
OpenTested ==
    /\ pc = "open"
    /\ ~(nodeExec = "" \/ nodeName = <<>>)
    /\ LET f == SelectedFault(start, end, current, Stats.NumNodes)
           kind == OpenKind(nodeExec, nodeName, IsFargate(SelectedNode))
       IN  IF f # "none"
           THEN /\ fault' = f
                /\ pc' = "panic"
                /\ UNCHANGED <<action, execs, nodeName>>
           ELSE /\ kind = "exec" => execs < MaxExecs
                /\ action' = [kind |-> kind, payload |-> nodeName,
                              tested |-> SelectedNode]
                /\ execs' = IF kind = "exec" THEN execs + 1 ELSE execs
                /\ nodeName' = <<>>
                /\ pc' = "view"
                /\ UNCHANGED fault
    /\ UNCHANGED <<cluster, config, sorting, height, pager, selection, err, frame,
                   msg, ticks>>

Update ==
    \/ WindowSize
    \/ KeyUp
    \/ KeyDown
    \/ KeyLeft
    \/ KeyRight
    \/ KeyQuit
    \/ KeyEnter
    \/ EnterInstanceID
    \/ OpenCopy
    \/ OpenTested
    \/ Tick
    \/ ExecFinished

Next == ClusterChange \/ View \/ Update

Spec == Init /\ [][Next]_vars

TypeOK ==
    /\ cluster \subseteq NodeIds
    /\ height \in Heights
    /\ pc \in {"update", "view", "instanceID", "open", "quit", "panic", "sort"}
    /\ execs \in 0..MaxExecs
    /\ ticks \in 0..MaxTicks

\* ---- the claims ----
\* the number of rows of the visible slice, as the handlers compute it
Visible == end - start

\* C1: after every render, when the visible slice is non-empty the cursor
\* satisfies 0 <= current <= (end - start) - 1.
C1_CursorInVisibleSlice ==
    (pc = "update" /\ Visible > 0) => (0 <= current /\ current <= Visible - 1)

\* C2: whenever the stored bounds slice the node sequence (the loop of View,
\* the three reads of the selected node on enter), start <= end <= number of
\* nodes of the snapshot sliced.
C2_SliceBoundsInSnapshot ==
    [][ /\ (KeyEnter \/ EnterInstanceID \/ OpenTested)
           => (start <= end /\ end <= Stats.NumNodes)
        /\ (ViewNodes /\ rows' > 0)
           => (start' <= end' /\ end' <= Stats.NumNodes) ]_vars

\* C3: an enter key pressed while the node set is empty or the visible slice
\* has no rows does not run openNode: nothing is indexed with the cursor and
\* nothing is dispatched.
C3_NoReadOfEmptySlice ==
    [][ KeyEnter => ~(Stats.NumNodes = 0 \/ Visible <= 0) ]_vars

\* C4: a render of a non-empty node set whose capacity is <= 0 writes no
\* node rows and does not divide by the capacity: the page count is left as
\* it was and the render does not panic.
C4_GuardedCapacity ==
    [][ (View /\ Stats.NumNodes # 0 /\ computeItemsPerPage <= 0)
        => (rows' = 0 /\ TotalPages' = TotalPages /\ fault' = "none") ]_vars

\* the mathematical floor of a / b for b > 0
FloorDiv(a, b) == IF a >= 0 THEN a \div b ELSE -((b - a - 1) \div b)

\* C5 (as claimed): the capacity a render computes is
\* floor((H - header) / L) - 1, also when H - header is negative.
C5_CapacityIsFloor ==
    [][ (View /\ Stats.NumNodes # 0)
        => PerPage' = FloorDiv(height - HeaderLines, NodeLines) - 1 ]_vars

\* C5 (amended): the capacity is floor((H - header) / L) - 1 when
\* H >= header, and -floor((header - H) / L) - 1, the quotient rounded
\* toward zero, when H < header.
C5_CapacityTruncates ==
    [][ (View /\ Stats.NumNodes # 0)
        => PerPage' = IF height >= HeaderLines
                      THEN FloorDiv(height - HeaderLines, NodeLines) - 1
                      ELSE -FloorDiv(HeaderLines - height, NodeLines) - 1
      ]_vars

\* a frame drawn with two resource lines per node at height 5: (5 - 6) / 2
C5_Witness ==
    /\ pc = "update"
    /\ cluster # {}
    /\ resources = 2
    /\ height = 5
    /\ PerPage = -1

\* C6: after a render of N >= 1 nodes with capacity C > 0,
\* totalPages = ceil(N / C), start = page * C, end = min(start + C, N) and
\* end - start <= C.
C6_PageBounds ==
    [][ (ViewNodes /\ PerPage' > 0)
        => LET N == Stats.NumNodes
               C == PerPage'
           IN  /\ TotalPages' = (N + C - 1) \div C
               /\ start' = Page' * C
               /\ end' = Min(start' + C, N)
               /\ end' - start' <= C ]_vars

\* three nodes drawn two per page, the second page holding the last one
C6_Witness ==
    /\ pc = "update"
    /\ Cardinality(cluster) = 3
    /\ PerPage = 2
    /\ TotalPages = 2
    /\ Page = 1
    /\ start = 2
    /\ end = 3
    /\ rows = 1

\* C7: after a render of a non-empty node set with positive capacity,
\* page * perPage <= number of nodes, whatever the page was before; the
\* bounds and the clamp of the cursor are those of the repaired page.
C7_PageRepaired ==
    [][ (ViewNodes /\ PerPage' > 0)
        => /\ Page' * PerPage' <= Stats.NumNodes
           /\ start' = Page' * PerPage'
           /\ end' <= Stats.NumNodes
           /\ current' = IF current >= end' - start'
                         THEN (end' - start') - 1
                         ELSE current ]_vars

\* a frame whose render had to repair the page
C7_Witness ==
    /\ pc = "update"
    /\ repaired
    /\ PerPage > 0
    /\ cluster # {}
    /\ rows > 0

\* C8: a down key above the last visible row increments the cursor and
\* keeps the page; on the last row of a page that is not the last it moves
\* to page + 1 with cursor 0; on the last row of the last page it changes
\* neither.
C8_DownKey ==
    [][ (pc = "update" /\ msg' = "down")
        => /\ (current < Visible - 1)
              => (current' = current + 1 /\ Page' = Page)
           /\ (current = Visible - 1 /\ Page # TotalPages - 1)
              => (current' = 0 /\ Page' = Page + 1)
           /\ (current = Visible - 1 /\ Page = TotalPages - 1)
              => (current' = current /\ Page' = Page) ]_vars

\* the down key has just moved from the last row of page 0 to page 1
C8_Witness ==
    /\ pc = "view"
    /\ msg = "down"
    /\ PerPage = 2
    /\ TotalPages = 2
    /\ Page = 1
    /\ current = 0
    /\ start = 2
    /\ end = 3

\* C9: an up key with cursor > 0 decrements the cursor and keeps the page;
\* with cursor 0 on a page > 0 it moves to page - 1 and sets the cursor to
\* the last index of that page, which is >= 0 also when the node count has
\* changed since the last render; with cursor 0 on page 0 it changes
\* nothing.
C9_UpKey ==
    [][ (pc = "update" /\ msg' = "up")
        => /\ (current > 0) => (current' = current - 1 /\ Page' = Page)
           /\ (current = 0 /\ Page > 0)
              => /\ Page' = Page - 1
                 /\ current' = (end' - start') - 1
                 /\ current' >= 0
           /\ (current = 0 /\ Page = 0)
              => (current' = current /\ Page' = Page) ]_vars

\* C10: openNode runs the external command iff a template is configured,
\* the payload is not empty and the selected node is not a Fargate node; in
\* every other case it only copies.  The payload is the name of the
\* selected node, or its instance id in copy-instance-id mode.
C10_ExecOnlyWhenAllowed ==
    [][ /\ (pc = "open" /\ pc' = "view")
           => /\ action'.kind \in {"copy", "exec"}
              /\ action'.payload = nodeName
              /\ action'.kind = "exec"
                 <=> (nodeExec # "" /\ nodeName # <<>>
                      /\ ~IsFargate(SelectedNode))
              /\ execs' = execs + (IF action'.kind = "exec" THEN 1 ELSE 0)
        /\ (pc # "open" /\ pc' = "open")
           => nodeName' = IF copyInstanceID THEN InstanceID(SelectedNode)
                          ELSE Name(SelectedNode) ]_vars

\* enter on a Fargate node with a template configured: a copy of its name
C10_Witness ==
    /\ pc = "view"
    /\ msg = "enter"
    /\ nodeExec # ""
    /\ action.kind = "copy"
    /\ action.payload # <<>>
    /\ action.tested # 0
    /\ IsFargate(action.tested)

\* C11 (as claimed): at most one external command is in flight: while one
\* has not delivered its execFinishedMsg, an enter key starts no second one.
C11_OneActionInFlight == execs <= 1

\* C12: an execFinishedMsg with an error records it and quits; one without
\* an error goes on to the next frame, records no error and leaves page,
\* cursor and height as they were.
C12_ExecFinished ==
    [][ /\ (pc = "update" /\ msg' = "execFailed")
           => (err' = "exit status 1" /\ pc' = "quit")
        /\ (pc = "update" /\ msg' = "execFinished")
           => /\ pc' = "view"
              /\ err' = "nil"
              /\ UNCHANGED <<Page, current, start, end, height>> ]_vars

\* a command failed: the error is on the model and the program has quit
C12_Witness ==
    /\ pc = "quit"
    /\ msg = "execFailed"
    /\ err = "exit status 1"

\* C13: a quit key is handled in every state in which the loop waits for a
\* message, and handling it quits without scheduling a tick.
C13_QuitKey ==
    /\ [](pc = "update" => ENABLED KeyQuit)
    /\ [][ (pc = "update" /\ msg' = "q")
           => (pc' = "quit" /\ ticks' = ticks) ]_vars

\* quit while a command is outstanding and a tick is pending
C13_Witness ==
    /\ pc = "quit"
    /\ msg = "q"
    /\ execs > 0
    /\ ticks > 0

\* C18 (as claimed): at most one timer tick is pending, however many
\* resize events arrive.
C18_OneTickPending == ticks <= 1

\* C16: a View of an empty cluster writes no node row and leaves Page,
\* PerPage, TotalPages, start, end and current as they were.
C16_EmptyViewFrame ==
    [][ (pc = "view" /\ pc' = "update" /\ Stats.NumNodes = 0)
        => (rows' = 0 /\ UNCHANGED <<pager, selection>>) ]_vars

\* an empty cluster was drawn and the page and slice of an earlier, larger
\* cluster are still on the model
C16_Witness ==
    /\ pc = "update"
    /\ msg = "none"
    /\ cluster = {}
    /\ rows = 0
    /\ Page >= 1
    /\ end - start >= 1

\* C17 (as claimed): a View changes current only when current >= end - start
\* and end - start > 0, and then to end - start - 1; with no visible row it
\* leaves current alone.
C17_ClampOnlyWithRows ==
    [][ (pc = "view" /\ pc' = "update" /\ current' # current)
        => /\ end' - start' > 0
           /\ current >= end' - start'
           /\ current' = (end' - start') - 1 ]_vars

\* C20 (as claimed): after a View of a non-empty cluster with a positive
\* capacity, 0 <= Page <= TotalPages - 1 and the slice has a row.
C20_PageHasRows ==
    [][ (pc = "view" /\ pc' = "update" /\ Stats.NumNodes > 0 /\ PerPage' > 0)
        => /\ 0 <= Page'
           /\ Page' <= TotalPages' - 1
           /\ end' - start' >= 1 ]_vars

\* the node a payload names: the number that ends a name or an instance id
NodeOf(payload) == payload[Len(payload)].v

\* C19 (as claimed): when openNode has read the Fargate flag, the payload it
\* copies or runs names the node whose flag it read.
C19_SameNode ==
    action.tested # 0 => NodeOf(action.payload) = action.tested

RECURSIVE Reverse(_)
Reverse(list) ==
    IF list = <<>> THEN <<>> ELSE Reverse(Tail(list)) \o <<Head(list)>>

\* C14 (as claimed): the list sorted with key=dsc is the reverse of the same
\* list sorted with key=asc, for the key creation and for a label key, ties
\* of the primary key included.
C14_DscReversesAsc ==
    (pc = "sort" /\ Len(sorted) = Len(nodes) /\ nodes # <<>>)
    => IF sortOrder(nodeSort, TRUE)
       THEN Reverse(sorted) = SortSlice(nodes, SortKey(nodeSort) \o <<"=dsc">>)
       ELSE sorted = Reverse(SortSlice(nodes, SortKey(nodeSort) \o <<"=asc">>))

\* C15 (as claimed): the relation is irreflexive and asymmetric: less(a, a)
\* is false, and less(a, b) and less(b, a) never both hold.
C15_StrictLess ==
    (pc = "sort" /\ compared.lhs # 0)
    => /\ compared.lhs = compared.rhs => ~compared.less
       /\ ~(/\ compared.less
            /\ makeNodeSorter(nodeSort, nodes[compared.rhs],
                              nodes[compared.lhs]))

====
